---- MODULE Spec2Model ----
(***************************************************************************)
(* The segment log of a recording session (recorder/entry.rs): the text    *)
(* codec of TsEntry, the append-only file entries.log, and the in-memory   *)
(* index EntryStore that is rebuilt from the file by load and advanced by  *)
(* add_entry.                                                              *)
(*                                                                         *)
(* Text is a sequence of bytes.  An ASCII byte is a one-character string;  *)
(* the two bytes of the non-ASCII letter e-acute are the strings "C3" and  *)
(* "A9".  An f64 length is a count of hundredths of a second, a u64 or an  *)
(* i64 is an integer far below the width of its type.                      *)
(***************************************************************************)
EXTENDS Integers, Sequences, FiniteSets, TLC

VARIABLES
    file,               \* the bytes of entries.log
    pc,                 \* where the process is: "down", "loading", "ready", "add_*", "panicked", "codec"
    header,             \* EntryStore.header: <<>> (None) or <<entry>> (Some)
    entries,            \* EntryStore.entries
    total_duration,     \* EntryStore.total_duration
    total_size,         \* EntryStore.total_size
    last_sequence,      \* EntryStore.last_sequence
    continue_sequence,  \* EntryStore.continue_sequence
    nread,              \* lines the reader of load has consumed
    diag,               \* log::error! calls of the running or the last load
    cur,                \* the argument of the add_entry in progress: <<>> or <<entry>>
    wlock,              \* the exclusive side of the session's read-write lock is held
    wrRes,              \* result of write_all in the current add_entry: "none", "ok", "err"
    flRes,              \* result of flush in the current add_entry: "none", "ok", "err"
    observed,           \* history: the entries the index took on, each with its i/o status
    loads,              \* history: the last two completed loads
    seen,               \* what the last reader read: <<>> or <<snapshot>>
    nAdds,              \* add_entry calls so far
    nFails,             \* failed writes and flushes so far
    codecLine,          \* codec alone: the Display output of the entry, <<>> before
    codecOut            \* codec alone: what decoding gave, <<>> before

vars == <<file, pc, header, entries, total_duration, total_size, last_sequence,
          continue_sequence, nread, diag, cur, wlock, wrRes, flRes, observed,
          loads, seen, nAdds, nFails, codecLine, codecOut>>

----------------------------------------------------------------------------
(* Bounds of the model.                                                    *)

MaxAppends == 2

MaxFailures == 1

MaxCut == 1

----------------------------------------------------------------------------
(* Bytes and text.                                                         *)

Pipe == "|"

NL == "\n"

CR == "\r"

EAcute == <<"C3", "A9">>

Digits == <<"0", "1", "2", "3", "4", "5", "6", "7", "8", "9">>

IsDigit(c) == \E i \in 1..10 : Digits[i] = c

DigitVal(c) == (CHOOSE i \in 1..10 : Digits[i] = c) - 1

Err == [ok |-> FALSE]

Ok(v) == [ok |-> TRUE, val |-> v]

RECURSIVE ToDigits(_)
ToDigits(n) ==
    IF n < 10 THEN <<Digits[n + 1]>>
    ELSE ToDigits(n \div 10) \o <<Digits[(n % 10) + 1]>>

RECURSIVE DigitsVal(_)
DigitsVal(s) ==
    IF s = <<>> THEN 0
    ELSE 10 * DigitsVal(SubSeq(s, 1, Len(s) - 1)) + DigitVal(s[Len(s)])

AllDigits(s) == \A i \in 1..Len(s) : IsDigit(s[i])

Pow10(k) == IF k = 0 THEN 1 ELSE IF k = 1 THEN 10 ELSE IF k = 2 THEN 100 ELSE 1000

(* The index of the first occurrence of byte c in s, 0 when there is none. *)
IndexOf(s, c) ==
    IF \E i \in 1..Len(s) : s[i] = c
    THEN CHOOSE i \in 1..Len(s) : s[i] = c /\ \A j \in 1..(i - 1) : s[j] # c
    ELSE 0

(* str::split: n occurrences of the delimiter give n + 1 fields.           *)
RECURSIVE Split(_, _)
Split(s, d) ==
    LET i == IndexOf(s, d)
    IN  IF i = 0 THEN <<s>>
        ELSE <<SubSeq(s, 1, i - 1)>> \o Split(SubSeq(s, i + 1, Len(s)), d)

(* Display of an unsigned integer, an integer, a bool and an f64 (the      *)
(* shortest decimal that reads back as the same value).                    *)
FmtU64(n) == ToDigits(n)

FmtI64(n) == IF n < 0 THEN <<"-">> \o ToDigits(0 - n) ELSE ToDigits(n)

FmtBool(b) == IF b THEN <<"t", "r", "u", "e">> ELSE <<"f", "a", "l", "s", "e">>

FmtF64(c) ==
    LET a == IF c < 0 THEN 0 - c ELSE c
        sign == IF c < 0 THEN <<"-">> ELSE <<>>
        whole == ToDigits(a \div 100)
        frac == a % 100
    IN  sign \o
        (IF frac = 0 THEN whole
         ELSE IF frac % 10 = 0 THEN whole \o <<".", Digits[(frac \div 10) + 1]>>
         ELSE whole \o <<".", Digits[(frac \div 10) + 1], Digits[(frac % 10) + 1]>>)

(* u64::from_str: an optional '+', then one digit or more.                 *)
ParseU64(s) ==
    LET body == IF s # <<>> /\ s[1] = "+" THEN Tail(s) ELSE s
    IN  IF body # <<>> /\ AllDigits(body) THEN Ok(DigitsVal(body)) ELSE Err

(* i64::from_str: an optional '+' or '-', then one digit or more.          *)
ParseI64(s) ==
    LET signed == s # <<>> /\ s[1] \in {"+", "-"}
        body == IF signed THEN Tail(s) ELSE s
    IN  IF body # <<>> /\ AllDigits(body)
        THEN Ok(IF signed /\ s[1] = "-" THEN 0 - DigitsVal(body) ELSE DigitsVal(body))
        ELSE Err

(* bool::from_str: exactly "true" or "false".                              *)
ParseBool(s) ==
    IF s = FmtBool(TRUE) THEN Ok(TRUE)
    ELSE IF s = FmtBool(FALSE) THEN Ok(FALSE)
    ELSE Err

(* The decimal mantissa of an f64: digits, an optional '.', digits, with   *)
(* one digit at least.  The value is kept to hundredths.                   *)
ParseMantissa(s) ==
    LET dot == IndexOf(s, ".")
        whole == IF dot = 0 THEN s ELSE SubSeq(s, 1, dot - 1)
        frac == IF dot = 0 THEN <<>> ELSE SubSeq(s, dot + 1, Len(s))
        f2 == SubSeq(frac \o <<"0", "0">>, 1, 2)
    IN  IF AllDigits(whole) /\ AllDigits(frac) /\ Len(whole) + Len(frac) > 0
        THEN Ok(100 * DigitsVal(whole) + DigitsVal(f2))
        ELSE Err

(* f64::from_str: an optional sign, a decimal mantissa and an optional     *)
(* exponent 'e' or 'E' with an optional sign and one digit or more.  The   *)
(* words inf, infinity and nan need letters that are no byte of the model. *)
ParseF64(s) ==
    LET signed == s # <<>> /\ s[1] \in {"+", "-"}
        body == IF signed THEN Tail(s) ELSE s
        ie == IF IndexOf(body, "e") # 0 THEN IndexOf(body, "e") ELSE IndexOf(body, "E")
        mant == ParseMantissa(IF ie = 0 THEN body ELSE SubSeq(body, 1, ie - 1))
        ex == IF ie = 0 THEN Ok(0) ELSE ParseI64(SubSeq(body, ie + 1, Len(body)))
        mag == IF ~mant.ok \/ ~ex.ok THEN 0
               ELSE IF ex.val >= 0 THEN mant.val * Pow10(ex.val)
               ELSE mant.val \div Pow10(0 - ex.val)
    IN  IF mant.ok /\ ex.ok /\ ex.val \in -3..3
        THEN Ok(IF signed /\ s[1] = "-" THEN 0 - mag ELSE mag)
        ELSE Err

----------------------------------------------------------------------------
(* TsEntry and its codec.                                                  *)

TsEntry(u, q, l, z, t, h) ==
    [url |-> u, sequence |-> q, length |-> l, size |-> z, ts |-> t, is_header |-> h]

FieldCount == 6

(* impl Display for TsEntry: six fields, '|' between them, a newline last. *)
Display(e) ==
    e.url \o <<Pipe>> \o FmtU64(e.sequence) \o <<Pipe>> \o FmtF64(e.length) \o <<Pipe>>
        \o FmtU64(e.size) \o <<Pipe>> \o FmtI64(e.ts) \o <<Pipe>> \o FmtBool(e.is_header)
        \o <<NL>>

(* A faulty variant of Decode: the sequence and the size are read from     *)
(* each other's field.                                                     *)
DecodeSwapped(line) ==
    LET parts == Split(line, Pipe)
    IN  IF Len(parts) # FieldCount THEN Err
        ELSE LET q == ParseU64(parts[4])
                 l == ParseF64(parts[3])
                 z == ParseU64(parts[2])
                 t == ParseI64(parts[5])
                 h == ParseBool(parts[6])
             IN  IF q.ok /\ l.ok /\ z.ok /\ t.ok /\ h.ok
                 THEN Ok(TsEntry(parts[1], q.val, l.val, z.val, t.val, h.val))
                 ELSE Err

(* TsEntry::from: split on '|', six fields exactly, every field parsed.    *)
Decode(line) ==
    LET parts == Split(line, Pipe)
    IN  IF Len(parts) # FieldCount THEN Err
        ELSE LET q == ParseU64(parts[2])
                 l == ParseF64(parts[3])
                 z == ParseU64(parts[4])
                 t == ParseI64(parts[5])
                 h == ParseBool(parts[6])
             IN  IF q.ok /\ l.ok /\ z.ok /\ t.ok /\ h.ok
                 THEN Ok(TsEntry(parts[1], q.val, l.val, z.val, t.val, h.val))
                 ELSE Err

(* BufRead::lines over the file: the text between newlines, a '\r' before  *)
(* the newline dropped, a last line without newline still delivered.       *)
ChompCR(l) == IF l # <<>> /\ l[Len(l)] = CR THEN SubSeq(l, 1, Len(l) - 1) ELSE l

RECURSIVE Lines(_)
Lines(bytes) ==
    LET i == IndexOf(bytes, NL)
    IN  IF bytes = <<>> THEN <<>>
        ELSE IF i = 0 THEN <<bytes>>
        ELSE <<ChompCR(SubSeq(bytes, 1, i - 1))>> \o Lines(SubSeq(bytes, i + 1, Len(bytes)))

(* A line is delivered as Ok only when its bytes are valid UTF-8: here,    *)
(* when "C3" and "A9" come in pairs.                                       *)
ValidUtf8(l) ==
    \A i \in 1..Len(l) :
        /\ l[i] = "C3" => (i < Len(l) /\ l[i + 1] = "A9")
        /\ l[i] = "A9" => (i > 1 /\ l[i - 1] = "C3")

----------------------------------------------------------------------------
(* The index: the fields of EntryStore.                                    *)

SequenceGap == 100

Index(h, es, td, tz, ls, cs) ==
    [header |-> h, entries |-> es, total_duration |-> td, total_size |-> tz,
     last_sequence |-> ls, continue_sequence |-> cs]

(* EntryStore::new, the struct literal: nothing loaded yet.                *)
NewIndex == Index(<<>>, <<>>, 0, 0, 0, 0)

CurrentIndex ==
    Index(header, entries, total_duration, total_size, last_sequence, continue_sequence)

(* A faulty variant of OpenLog: the log is opened with truncate(true).     *)
OpenLogTruncate(bytes) == <<>>

(* OpenOptions::new().create(true).append(true): the bytes of an existing  *)
(* log are kept, a missing log starts empty.                               *)
OpenLog(bytes) == bytes

(* A faulty variant of KeepMax: the last sequence read is kept, not the    *)
(* largest.                                                                *)
KeepLast(ls, q) == q

(* The running maximum of load and of add_entry.                           *)
KeepMax(ls, q) == IF q > ls THEN q ELSE ls

(* The body of the loop of load for one decoded entry.                     *)
LoadEntry(ix, e) ==
    [ix EXCEPT !.last_sequence = KeepMax(ix.last_sequence, e.sequence),
               !.header = IF e.is_header THEN <<e>> ELSE ix.header,
               !.entries = IF e.is_header THEN ix.entries ELSE Append(ix.entries, e),
               !.total_duration = ix.total_duration + e.length,
               !.total_size = ix.total_size + e.size]

(* One turn of the loop of load: a line that does not decode is reported   *)
(* and skipped.                                                            *)
LoadLineIndex(ix, line) ==
    LET d == Decode(line) IN IF d.ok THEN LoadEntry(ix, d.val) ELSE ix

(* A faulty variant of LoopContinues: a line that does not decode ends the *)
(* loop (break in the place of continue).                                  *)
LoopBreaksOnError(line) == ValidUtf8(line) /\ Decode(line).ok

(* while let Some(Ok(line)): the loop of load goes on while the reader     *)
(* delivers the next line as text.                                         *)
LoopContinues(line) == ValidUtf8(line)

(* The lines the loop of load gets from the reader: it ends at the first   *)
(* line that the reader cannot deliver as text.                            *)
RECURSIVE ReadableLines(_)
ReadableLines(ls) ==
    IF ls = <<>> \/ ~LoopContinues(Head(ls)) THEN <<>>
    ELSE <<Head(ls)>> \o ReadableLines(Tail(ls))

(* load as a whole: the index a fresh store has when new returns.          *)
RECURSIVE ReplayLines(_, _)
ReplayLines(ix, ls) ==
    IF ls = <<>> THEN ix ELSE ReplayLines(LoadLineIndex(ix, Head(ls)), Tail(ls))

(* A faulty variant of ContinueSequence: no gap is reserved.               *)
ContinueSequenceNoGap(ls) == ls

(* The assignment that ends load.                                          *)
ContinueSequence(ls) == ls + SequenceGap

Replay(bytes) ==
    LET ix == ReplayLines(NewIndex, ReadableLines(Lines(OpenLog(bytes))))
    IN  [ix EXCEPT !.continue_sequence = ContinueSequence(ix.last_sequence)]

(* The partial lengths a failed write_all may leave in the file: a proper  *)
(* prefix of the line, here one of at most MaxCut bytes or one that lacks  *)
(* at most MaxCut bytes.                                                   *)
PartialLens(line) ==
    {k \in 0..(Len(line) - 1) : k <= MaxCut \/ k >= Len(line) - MaxCut}

(* The entries the producer hands to add_entry:                            *)
(* two segments out of order, a header, a url that holds the delimiter and  *)
(* a url that is not ASCII.                                                *)
EntryPool ==
    { TsEntry(<<"a">>, 100, 150, 7, 1500, FALSE),
      TsEntry(<<"b">>, 1, 200, 8, 2500, FALSE),
      TsEntry(<<"h">>, 101, 50, 9, 0, TRUE),
      TsEntry(<<"a", Pipe, "b">>, 2, 150, 7, 3500, FALSE),
      TsEntry(EAcute, 3, 125, 7, 4500, FALSE) }

Status(e, io) == [e |-> e, io |-> io]

SetLastIo(obs, io) == [obs EXCEPT ![Len(obs)].io = io]

LastTwo(s) == IF Len(s) > 2 THEN SubSeq(s, Len(s) - 1, Len(s)) ELSE s

----------------------------------------------------------------------------
(* The session.                                                            *)

codecVars == <<codecLine, codecOut>>

storeVars == <<header, entries, total_duration, total_size, last_sequence,
               continue_sequence>>

countVars == <<nAdds, nFails>>

SetIndex(ix) ==
    /\ header' = ix.header
    /\ entries' = ix.entries
    /\ total_duration' = ix.total_duration
    /\ total_size' = ix.total_size
    /\ last_sequence' = ix.last_sequence
    /\ continue_sequence' = ix.continue_sequence

Init ==
    /\ file = <<>>
    /\ pc = "down"
    /\ header = <<>>
    /\ entries = <<>>
    /\ total_duration = 0
    /\ total_size = 0
    /\ last_sequence = 0
    /\ continue_sequence = 0
    /\ nread = 0
    /\ diag = 0
    /\ cur = <<>>
    /\ wlock = FALSE
    /\ wrRes = "none"
    /\ flRes = "none"
    /\ observed = <<>>
    /\ loads = <<>>
    /\ seen = <<>>
    /\ nAdds = 0
    /\ nFails = 0
    /\ codecLine = <<>>
    /\ codecOut = <<>>

(* EntryStore::new up to the call of load: the log is opened for append    *)
(* and the index starts empty.                                             *)
New ==
    /\ pc = "down"
    /\ file' = OpenLog(file)
    /\ SetIndex(NewIndex)
    /\ nread' = 0
    /\ diag' = 0
    /\ observed' = <<>>
    /\ loads' = LastTwo(Append(SelectSeq(loads, LAMBDA l : l.complete),
                               [before |-> file, complete |-> FALSE,
                                after |-> <<>>, index |-> NewIndex, diag |-> 0]))
    /\ seen' = <<>>
    /\ pc' = "loading"
    /\ UNCHANGED <<cur, wlock, wrRes, flRes, countVars, codecVars>>

(* One turn of the loop of load.                                           *)
LoadLine ==
    /\ pc = "loading"
    /\ nread < Len(Lines(file))
    /\ LET line == Lines(file)[nread + 1]
           d == Decode(line)
       IN  /\ LoopContinues(line)
           /\ SetIndex(LoadLineIndex(CurrentIndex, line))
           /\ diag' = IF d.ok THEN diag ELSE diag + 1
           /\ observed' = IF d.ok THEN Append(observed, Status(d.val, "log")) ELSE observed
    /\ nread' = nread + 1
    /\ seen' = <<>>
    /\ UNCHANGED <<file, pc, cur, wlock, wrRes, flRes, loads, countVars, codecVars>>

(* The loop of load ends, at the end of the file or at a line the reader   *)
(* cannot deliver, and continue_sequence is set.                           *)
LoadDone ==
    /\ pc = "loading"
    /\ \/ nread = Len(Lines(file))
       \/ nread < Len(Lines(file)) /\ ~LoopContinues(Lines(file)[nread + 1])
    /\ continue_sequence' = ContinueSequence(last_sequence)
    /\ loads' = [loads EXCEPT ![Len(loads)] =
                    [before |-> loads[Len(loads)].before, complete |-> TRUE,
                     after |-> file,
                     index |-> [CurrentIndex EXCEPT
                                   !.continue_sequence = ContinueSequence(last_sequence)],
                     diag |-> diag]]
    /\ pc' = "ready"
    /\ seen' = <<>>
    /\ UNCHANGED <<file, header, entries, total_duration, total_size, last_sequence,
                   nread, diag, cur, wlock, wrRes, flRes, observed, countVars, codecVars>>

(* The producer takes the session's lock for writing and calls add_entry.  *)
AcquireWrite(e) ==
    /\ pc = "ready"
    /\ ~wlock
    /\ nAdds < MaxAppends
    /\ wlock' = TRUE
    /\ cur' = <<e>>
    /\ wrRes' = "none"
    /\ flRes' = "none"
    /\ nAdds' = nAdds + 1
    /\ pc' = "add_push"
    /\ seen' = <<>>
    /\ UNCHANGED <<file, storeVars, nread, diag, observed, loads, nFails, codecVars>>

(* A faulty variant of AddPush: the aggregates are updated with the push,  *)
(* before the write.                                                       *)
AddPushEager ==
    /\ pc = "add_push"
    /\ LET e == cur[1]
       IN  /\ header' = IF e.is_header THEN <<e>> ELSE header
           /\ entries' = IF e.is_header THEN entries ELSE Append(entries, e)
           /\ observed' = Append(observed, Status(e, "pending"))
           /\ last_sequence' = KeepMax(last_sequence, e.sequence)
           /\ total_duration' = total_duration + e.length
           /\ total_size' = total_size + e.size
    /\ pc' = "add_write"
    /\ seen' = <<>>
    /\ UNCHANGED <<file, continue_sequence, nread, diag, cur, wlock, wrRes, flRes,
                   loads, countVars, codecVars>>

(* add_entry, the header slot or the entries vector takes the entry.       *)
AddPush ==
    /\ pc = "add_push"
    /\ LET e == cur[1]
       IN  /\ header' = IF e.is_header THEN <<e>> ELSE header
           /\ entries' = IF e.is_header THEN entries ELSE Append(entries, e)
           /\ observed' = Append(observed, Status(e, "pending"))
    /\ pc' = "add_write"
    /\ seen' = <<>>
    /\ UNCHANGED <<file, total_duration, total_size, last_sequence, continue_sequence,
                   nread, diag, cur, wlock, wrRes, flRes, loads, countVars, codecVars>>

(* add_entry, write_all: the whole line reaches the file, or the write     *)
(* fails with part of the line written; the failure is logged only.        *)
AddWrite ==
    /\ pc = "add_write"
    /\ LET line == Display(cur[1])
       IN  \/ /\ file' = file \o line
              /\ wrRes' = "ok"
              /\ nFails' = nFails
           \/ /\ nFails < MaxFailures
              /\ \E k \in PartialLens(line) : file' = file \o SubSeq(line, 1, k)
              /\ wrRes' = "err"
              /\ nFails' = nFails + 1
    /\ pc' = "add_flush"
    /\ seen' = <<>>
    /\ UNCHANGED <<storeVars, nread, diag, cur, wlock, flRes, observed, loads, nAdds,
                   codecVars>>

(* add_entry, flush().await.unwrap(): a failed flush panics.               *)
AddFlush ==
    /\ pc = "add_flush"
    /\ \/ /\ flRes' = "ok"
          /\ observed' = SetLastIo(observed, IF wrRes = "ok" THEN "ok" ELSE "wfail")
          /\ nFails' = nFails
          /\ pc' = "add_agg"
       \/ /\ nFails < MaxFailures
          /\ flRes' = "err"
          /\ observed' = SetLastIo(observed, "ffail")
          /\ nFails' = nFails + 1
          /\ pc' = "panicked"
    /\ seen' = <<>>
    /\ UNCHANGED <<file, storeVars, nread, diag, cur, wlock, wrRes, loads, nAdds,
                   codecVars>>

(* add_entry, the aggregates after the flush.                              *)
AddAggregates ==
    /\ pc = "add_agg"
    /\ LET e == cur[1]
       IN  /\ last_sequence' = KeepMax(last_sequence, e.sequence)
           /\ total_duration' = total_duration + e.length
           /\ total_size' = total_size + e.size
    /\ pc' = "add_done"
    /\ seen' = <<>>
    /\ UNCHANGED <<file, header, entries, continue_sequence, nread, diag, cur, wlock,
                   wrRes, flRes, observed, loads, countVars, codecVars>>

(* add_entry has returned and the producer gives the lock back.            *)
ReleaseWrite ==
    /\ pc = "add_done"
    /\ wlock' = FALSE
    /\ cur' = <<>>
    /\ pc' = "ready"
    /\ seen' = <<>>
    /\ UNCHANGED <<file, storeVars, nread, diag, wrRes, flRes, observed, loads,
                   countVars, codecVars>>

(* The panic of add_entry unwinds the producer's task: the guard of the    *)
(* lock is dropped and the store stays as the panic left it.               *)
Unwind ==
    /\ pc = "panicked"
    /\ wlock' = FALSE
    /\ cur' = <<>>
    /\ pc' = "ready"
    /\ seen' = <<>>
    /\ UNCHANGED <<file, storeVars, nread, diag, wrRes, flRes, observed, loads,
                   countVars, codecVars>>

(* The accessors a reader calls under the shared side of the lock.         *)
Snapshot ==
    [header |-> header, entries |-> entries, total_duration |-> total_duration,
     total_size |-> total_size, last_sequence |-> last_sequence,
     first_ts |-> IF entries = <<>> THEN <<>> ELSE <<entries[1].ts>>,
     last_ts |-> IF entries = <<>> THEN <<>> ELSE <<entries[Len(entries)].ts>>,
     observed |-> observed]

(* A reader takes the lock for reading, which no writer holds, and reads.  *)
Read ==
    /\ pc = "ready"
    /\ ~wlock
    /\ seen = <<>>
    /\ seen' = <<Snapshot>>
    /\ UNCHANGED <<file, pc, storeVars, nread, diag, cur, wlock, wrRes, flRes,
                   observed, loads, countVars, codecVars>>

(* The process ends, at any point, and with it the store; the file stays.  *)
Crash ==
    /\ pc \notin {"down", "codec"}
    /\ SetIndex(NewIndex)
    /\ nread' = 0
    /\ diag' = 0
    /\ cur' = <<>>
    /\ wlock' = FALSE
    /\ wrRes' = "none"
    /\ flRes' = "none"
    /\ observed' = <<>>
    /\ seen' = <<>>
    /\ pc' = "down"
    /\ UNCHANGED <<file, loads, nAdds, nFails, codecVars>>

Next ==
    \/ New
    \/ LoadLine
    \/ LoadDone
    \/ \E e \in EntryPool : AcquireWrite(e)
    \/ AddPush
    \/ AddWrite
    \/ AddFlush
    \/ AddAggregates
    \/ ReleaseWrite
    \/ Unwind
    \/ Read
    \/ Crash

Spec == Init /\ [][Next]_vars

----------------------------------------------------------------------------
(* The codec alone: an entry is encoded, and the text is decoded as it is  *)
(* or read back the way load reads the file.                               *)

CodecUrls ==
    {<<>>, <<"a">>, <<"a", Pipe, "b">>, <<"a", NL, "b">>, <<"a", CR>>, EAcute}

CodecEntries ==
    {TsEntry(u, q, l, z, t, h) :
        u \in CodecUrls, q \in {0, 7, 100}, l \in {0, 125, 150, 200},
        z \in {0, 10}, t \in {-1500, 0, 1500}, h \in BOOLEAN}

InitCodec ==
    /\ pc = "codec"
    /\ cur \in {<<e>> : e \in CodecEntries}
    /\ file = <<>>
    /\ header = <<>>
    /\ entries = <<>>
    /\ total_duration = 0
    /\ total_size = 0
    /\ last_sequence = 0
    /\ continue_sequence = 0
    /\ nread = 0
    /\ diag = 0
    /\ wlock = FALSE
    /\ wrRes = "none"
    /\ flRes = "none"
    /\ observed = <<>>
    /\ loads = <<>>
    /\ seen = <<>>
    /\ nAdds = 0
    /\ nFails = 0
    /\ codecLine = <<>>
    /\ codecOut = <<>>

sessionVars == <<file, pc, storeVars, nread, diag, cur, wlock, wrRes, flRes, observed,
                 loads, seen, countVars>>

(* entry.to_string(), as add_entry calls it.                               *)
Encode ==
    /\ pc = "codec"
    /\ codecLine = <<>>
    /\ codecLine' = Display(cur[1])
    /\ UNCHANGED <<codecOut, sessionVars>>

(* TsEntry::from on the encoded text as it is.                             *)
DecodeOutput ==
    /\ pc = "codec"
    /\ codecLine # <<>>
    /\ codecOut = <<>>
    /\ codecOut' = <<[how |-> "raw", res |-> <<Decode(codecLine)>>]>>
    /\ UNCHANGED <<codecLine, sessionVars>>

(* TsEntry::from on every line the reader of load makes of the text.       *)
ReadBack ==
    /\ pc = "codec"
    /\ codecLine # <<>>
    /\ codecOut = <<>>
    /\ codecOut' = <<[how |-> "lines",
                      res |-> [i \in 1..Len(Lines(codecLine)) |->
                                  Decode(Lines(codecLine)[i])]]>>
    /\ UNCHANGED <<codecLine, sessionVars>>

NextCodec == Encode \/ DecodeOutput \/ ReadBack

SpecCodec == InitCodec /\ [][NextCodec]_vars

----------------------------------------------------------------------------
(* What the properties below speak of.                                     *)

HasByte(s, c) == \E i \in 1..Len(s) : s[i] = c

RECURSIVE SumSizes(_)
SumSizes(es) == IF es = <<>> THEN 0 ELSE Head(es).size + SumSizes(Tail(es))

RECURSIVE SumLengths(_)
SumLengths(es) == IF es = <<>> THEN 0 ELSE Head(es).length + SumLengths(Tail(es))

(* The largest sequence of a list of entries, 0 for the empty list.        *)
MaxSequence(es) ==
    IF es = <<>> THEN 0
    ELSE CHOOSE m \in {es[i].sequence : i \in 1..Len(es)} :
            \A i \in 1..Len(es) : es[i].sequence <= m

EntriesOf(obs) == [i \in 1..Len(obs) |-> obs[i].e]

(* The observed entries whose i/o status is one of ios.                    *)
WithIo(obs, ios) == EntriesOf(SelectSeq(obs, LAMBDA o : o.io \in ios))

(* No add_entry has been called on the store since load built it.          *)
FreshlyLoaded == pc = "ready" /\ \A i \in 1..Len(observed) : observed[i].io = "log"

(* The entries of the decodable lines among ls, in the order of ls.        *)
DecodedOf(ls) ==
    LET ds == [i \in 1..Len(ls) |-> Decode(ls[i])]
        oks == SelectSeq(ds, LAMBDA d : d.ok)
    IN  [i \in 1..Len(oks) |-> oks[i].val]

Headers(es) == SelectSeq(es, LAMBDA e : e.is_header)

Segments(es) == SelectSeq(es, LAMBDA e : ~e.is_header)

LastHeader(es) == IF Headers(es) = <<>> THEN <<>> ELSE <<Headers(es)[Len(Headers(es))]>>

----------------------------------------------------------------------------
(* C1: after add_entry calls whose writes and flushes all succeeded, a     *)
(* fresh index rebuilt from the log file has the same header, the same     *)
(* ordered entries and the same total_duration, total_size and             *)
(* last_sequence as the index that took the appends one by one.            *)
C1_ReloadEqualsIndex ==
    (/\ pc = "ready"
     /\ \E i \in 1..Len(observed) : observed[i].io = "ok"
     /\ \A i \in 1..Len(observed) : observed[i].io \in {"log", "ok"})
    => LET r == Replay(file)
       IN  /\ r.header = header
           /\ r.entries = entries
           /\ r.total_duration = total_duration
           /\ r.total_size = total_size
           /\ r.last_sequence = last_sequence

(* C2, as stated: whenever the store is idle, after load and after any     *)
(* number of add_entry calls, continue_sequence is strictly greater than   *)
(* the sequence of every entry the index has accounted for.                *)
C2_ContinueAboveIndexed ==
    pc = "ready" =>
        \A i \in 1..Len(observed) : continue_sequence > observed[i].e.sequence

(* C2, amended: in every state after load, continue_sequence is strictly   *)
(* greater than the sequence of every entry, header or not, that load      *)
(* replayed from the log; add_entry leaves continue_sequence as it is.     *)
C2_ContinueAboveLoaded ==
    pc \in {"ready", "add_push", "add_write", "add_flush", "add_agg", "add_done",
            "panicked"} =>
        \A i \in 1..Len(observed) :
            observed[i].io = "log" => continue_sequence > observed[i].e.sequence

C2_Witness ==
    /\ pc = "ready"
    /\ Len(observed) >= 2
    /\ observed[1].io = "log"
    /\ observed[1].e.sequence = 101
    /\ observed[Len(observed)].io = "ok"
    /\ continue_sequence = 201

(* C3: right after load, continue_sequence is the largest sequence of the  *)
(* decoded log entries, headers included, plus 100, in whatever order the  *)
(* entries stand in the log, and 100 when no entry was decoded.            *)
C3_ContinueIsMaxPlusGap ==
    FreshlyLoaded =>
        continue_sequence = MaxSequence(DecodedOf(ReadableLines(Lines(file)))) + 100

C3_Witness ==
    /\ FreshlyLoaded
    /\ Len(observed) = 2
    /\ observed[1].e.is_header
    /\ observed[1].e.sequence > observed[2].e.sequence
    /\ continue_sequence = observed[1].e.sequence + 100

(* C4, as stated: add_entry writes and flushes the entry before it changes *)
(* any field of the index, so the index never holds an entry that is not   *)
(* yet written and flushed.                                                *)
C4_IndexNeverAheadOfLog ==
    \A i \in 1..Len(observed) : observed[i].io \in {"log", "ok"}

(* C4, amended: add_entry puts the entry into header or entries first,     *)
(* before the write; last_sequence, total_duration and total_size change   *)
(* only after write_all has been tried and flush has returned Ok, so the   *)
(* aggregates never count an entry whose flush has not returned.           *)
C4_AggregatesAfterFlush ==
    LET flushed == WithIo(observed, {"log", "ok", "wfail"})
    IN  /\ total_size <= SumSizes(flushed)
        /\ total_duration <= SumLengths(flushed)
        /\ last_sequence <= MaxSequence(flushed)

C4_Witness ==
    /\ pc = "add_flush"
    /\ wrRes = "ok"
    /\ observed[Len(observed)].io = "pending"
    /\ cur[1] \in {entries[i] : i \in 1..Len(entries)}
    /\ total_size = SumSizes(EntriesOf(observed)) - cur[1].size

(* C5: when the write or the flush of an append fails, add_entry still     *)
(* returns normally and the index has advanced as on success: the entry is *)
(* held and last_sequence, total_duration and total_size count it.         *)
C5_FailureNeverAborts ==
    (pc \in {"add_done", "panicked"} /\ (wrRes = "err" \/ flRes = "err"))
    => /\ pc = "add_done"
       /\ total_size = SumSizes(EntriesOf(observed))
       /\ total_duration = SumLengths(EntriesOf(observed))
       /\ last_sequence = MaxSequence(EntriesOf(observed))

(* C6: no reader sees a torn update: whatever a reader reads, the entries  *)
(* it sees and last_sequence, total_duration and total_size reflect the    *)
(* same appended entries.                                                  *)
C6_ReadersSeeNoTornUpdate ==
    seen # <<>> =>
        LET es == EntriesOf(seen[1].observed)
        IN  /\ seen[1].entries = Segments(es)
            /\ seen[1].header = LastHeader(es)
            /\ seen[1].total_size = SumSizes(es)
            /\ seen[1].total_duration = SumLengths(es)
            /\ seen[1].last_sequence = MaxSequence(es)

C8_ReplayIdempotent ==
    /\ \A i \in 1..Len(loads) : loads[i].complete => loads[i].after = loads[i].before
    /\ (/\ Len(loads) = 2
        /\ loads[2].complete
        /\ loads[1].after = loads[2].before)
       => /\ loads[1].index = loads[2].index
          /\ loads[1].diag = loads[2].diag

C8_Witness ==
    /\ Len(loads) = 2
    /\ loads[2].complete
    /\ loads[1].after = loads[2].before
    /\ Len(loads[2].index.entries) >= 1
    /\ loads[2].diag >= 1

(* C9: whenever the store is idle, total_size is the sum of the sizes and  *)
(* total_duration the sum of the durations of every entry the index has    *)
(* observed, replayed or appended, headers included.                       *)
C9_TotalsAreSums ==
    pc = "ready" =>
        /\ total_size = SumSizes(EntriesOf(observed))
        /\ total_duration = SumLengths(EntriesOf(observed))

(* C10, as stated: for every entry whose url holds no '|', TsEntry::from   *)
(* applied to the Display output, the line with its newline, gives back    *)
(* the entry, equal in all six fields.                                     *)
C10_DecodeOfDisplay ==
    (/\ pc = "codec"
     /\ codecOut # <<>>
     /\ codecOut[1].how = "raw"
     /\ ~HasByte(cur[1].url, Pipe))
    => codecOut[1].res = <<Ok(cur[1])>>

(* C10, amended: for every entry whose url holds no '|' and no line feed,  *)
(* the reader of load makes one line of the Display output, the text       *)
(* without its newline, and TsEntry::from of that line gives back the      *)
(* entry, equal in all six fields.                                         *)
C10_ReadBackRoundTrip ==
    (/\ pc = "codec"
     /\ codecOut # <<>>
     /\ codecOut[1].how = "lines"
     /\ ~HasByte(cur[1].url, Pipe)
     /\ ~HasByte(cur[1].url, NL))
    => codecOut[1].res = <<Ok(cur[1])>>

C10_Witness ==
    /\ pc = "codec"
    /\ codecOut # <<>>
    /\ codecOut[1].how = "lines"
    /\ cur[1].url = EAcute
    /\ cur[1].length = 125
    /\ cur[1].ts = -1500
    /\ codecOut[1].res = <<Ok(cur[1])>>

----------------------------------------------------------------------------
(* The manifest.  A playlist is a sequence of lines; a line is its tag,    *)
(* the number it carries and the text it carries.  A range bound, an f32,  *)
(* is a count of hundredths like a length.                                 *)

MLine(tag, num, text) == [tag |-> tag, num |-> num, text |-> text]

(* Integer division of Rust: the quotient is rounded toward zero.          *)
TruncDiv(a, b) == IF a >= 0 THEN a \div b ELSE 0 - ((0 - a) \div b)

(* Utc.timestamp_opt gives a date only for seconds within the dates chrono *)
(* can hold, about 8.2e12 seconds either side of the epoch.  The limit is  *)
(* scaled to the integers of the model, as FarTs is: FarTs stands for a    *)
(* millisecond timestamp near i64::MAX.                                    *)
ChronoSecs == 1000 * 1000

FarTs == 2000 * ChronoSecs

InChronoRange(secs) == secs >= 0 - ChronoSecs /\ secs <= ChronoSecs

(* TsEntry::date_time: the unwrap panics when there is no date.            *)
DateTime(e) ==
    LET secs == TruncDiv(e.ts, 1000)
    IN  IF InChronoRange(secs)
        THEN Ok(<<MLine("#EXT-X-PROGRAM-DATE-TIME:", secs, <<>>)>>)
        ELSE Err

(* A faulty variant of ToSegment: force_time is ignored.                   *)
ToSegmentNoForce(e, continuous, force_time) ==
    IF e.is_header THEN Ok(<<>>)
    ELSE LET disc == IF continuous THEN <<>>
                     ELSE <<MLine("#EXT-X-DISCONTINUITY", 0, <<>>)>>
             date == IF ~continuous THEN DateTime(e) ELSE Ok(<<>>)
         IN  IF date.ok
             THEN Ok(disc \o date.val
                     \o <<MLine("#EXTINF:", e.length, <<>>), MLine("", 0, e.url)>>)
             ELSE Err

(* TsEntry::to_segment.                                                    *)
ToSegment(e, continuous, force_time) ==
    IF e.is_header THEN Ok(<<>>)
    ELSE LET disc == IF continuous THEN <<>>
                     ELSE <<MLine("#EXT-X-DISCONTINUITY", 0, <<>>)>>
             date == IF ~continuous \/ force_time THEN DateTime(e) ELSE Ok(<<>>)
         IN  IF date.ok
             THEN Ok(disc \o date.val
                     \o <<MLine("#EXTINF:", e.length, <<>>), MLine("", 0, e.url)>>)
             ELSE Err

(* A faulty variant of RangeIsIn: the bounds themselves are left out.      *)
RangeIsInExclusive(r, v) == v > r.x /\ v < r.y

(* Range::is_in.                                                           *)
RangeIsIn(r, v) == v >= r.x /\ v <= r.y

(* A faulty variant of Discontinuous: only a step back is a break.         *)
DiscontinuousBackwardOnly(sequence, previous_seq) == sequence < previous_seq

(* manifest, the discontinuity test of one entry.                          *)
Discontinuous(sequence, previous_seq) ==
    sequence < previous_seq \/ sequence - previous_seq > 1

(* manifest, the offset of an entry: the difference of the two timestamps  *)
(* in whole seconds.                                                       *)
EntryOffset(e, first_entry_ts) == TruncDiv(e.ts, 1000) - first_entry_ts

(* manifest, range.is_none_or(|r| r.is_in(entry_offset)), the offset cast  *)
(* to f32.                                                                 *)
InRange(range, entry_offset) ==
    range = <<>> \/ RangeIsIn(range[1], 100 * entry_offset)

(* A faulty variant of NextPrevious: previous_seq follows only the entries *)
(* that the range includes.                                                *)
NextPreviousIfIncluded(previous_seq, e, included) ==
    IF included THEN e.sequence ELSE previous_seq

(* manifest, previous_seq = e.sequence.                                    *)
NextPrevious(previous_seq, e, included) == e.sequence

(* manifest, the loop over the entries.                                    *)
RECURSIVE SegmentLoop(_, _, _, _, _)
SegmentLoop(es, previous_seq, first_entry_ts, force_time, range) ==
    IF es = <<>> THEN Ok(<<>>)
    ELSE LET e == Head(es)
         IN  IF e.is_header
             THEN SegmentLoop(Tail(es), previous_seq, first_entry_ts, force_time, range)
             ELSE LET discontinuous == Discontinuous(e.sequence, previous_seq)
                      included == InRange(range, EntryOffset(e, first_entry_ts))
                      seg == IF included THEN ToSegment(e, ~discontinuous, force_time)
                             ELSE Ok(<<>>)
                      rest == SegmentLoop(Tail(es), NextPrevious(previous_seq, e, included),
                                          first_entry_ts, force_time, range)
                  IN  IF seg.ok /\ rest.ok THEN Ok(seg.val \o rest.val) ELSE Err

(* manifest, the tag of the header: emitted when a header is present.      *)
MapLines(h) ==
    IF h = <<>> THEN <<>> ELSE <<MLine("#EXT-X-MAP:URI=", 0, h[1].url)>>

(* manifest, the lines every playlist starts with.                         *)
StartLines(vod) ==
    <<MLine("#EXTM3U", 0, <<>>),
      MLine("#EXT-X-VERSION:", 6, <<>>),
      MLine("#EXT-X-PLAYLIST-TYPE:", 0, IF vod THEN <<"VOD">> ELSE <<"EVENT">>)>>

(* A faulty variant of EndContent: the playlist is always closed.          *)
EndContentAlways(vod) == <<MLine("#EXT-X-ENDLIST", 0, <<>>)>>

(* manifest, end_content.                                                  *)
EndContent(vod) == IF vod THEN <<MLine("#EXT-X-ENDLIST", 0, <<>>)>> ELSE <<>>

(* A faulty variant of EmptyPlaylist: the header is written all the same.  *)
EmptyPlaylistWithMap(ix, vod) == StartLines(vod) \o MapLines(ix.header) \o EndContent(vod)

(* manifest, the early return when there is no entry.                      *)
EmptyPlaylist(ix, vod) == StartLines(vod) \o EndContent(vod)

(* EntryStore::manifest: the playlist, or Err when date_time panics.       *)
Manifest(ix, vod, force_time, range) ==
    IF ix.entries = <<>> THEN Ok(EmptyPlaylist(ix, vod))
    ELSE LET first_entry == ix.entries[1]
             target == <<MLine("#EXT-X-TARGETDURATION:",
                               (50 + first_entry.length) \div 100, <<>>)>>
             segs == SegmentLoop(ix.entries, first_entry.sequence,
                                 TruncDiv(first_entry.ts, 1000), force_time, range)
         IN  IF segs.ok
             THEN Ok(StartLines(vod) \o target \o MapLines(ix.header) \o segs.val
                     \o EndContent(vod))
             ELSE Err

(* A faulty variant of AddEntryIndex: a header once set is kept.           *)
AddEntryKeepsHeader(ix, e) ==
    [ix EXCEPT !.header = IF e.is_header /\ ix.header = <<>> THEN <<e>> ELSE ix.header,
               !.entries = IF e.is_header THEN ix.entries ELSE Append(ix.entries, e),
               !.last_sequence = KeepMax(ix.last_sequence, e.sequence),
               !.total_duration = ix.total_duration + e.length,
               !.total_size = ix.total_size + e.size]

(* add_entry as a whole, when the write and the flush succeed.             *)
AddEntryIndex(ix, e) ==
    [ix EXCEPT !.header = IF e.is_header THEN <<e>> ELSE ix.header,
               !.entries = IF e.is_header THEN ix.entries ELSE Append(ix.entries, e),
               !.last_sequence = KeepMax(ix.last_sequence, e.sequence),
               !.total_duration = ix.total_duration + e.length,
               !.total_size = ix.total_size + e.size]

RECURSIVE AddAll(_, _)
AddAll(ix, es) == IF es = <<>> THEN ix ELSE AddAll(AddEntryIndex(ix, Head(es)), Tail(es))

----------------------------------------------------------------------------
(* The manifest alone: a store that holds one of the streams below, then   *)
(* takes further entries, and is asked for playlists.  Of the session only *)
(* pc, the index, observed, seen and nAdds are in use.                     *)

MaxExtra == 2

(* Segments whose sequences run 1, 2, 3, 5, 4, 6, one second apart.        *)
GapStream ==
    << TsEntry(<<"a">>, 1, 100, 7, 1000, FALSE),
       TsEntry(<<"b">>, 2, 100, 7, 2000, FALSE),
       TsEntry(<<"c">>, 3, 100, 7, 3000, FALSE),
       TsEntry(<<"d">>, 5, 100, 7, 4000, FALSE),
       TsEntry(<<"e">>, 4, 100, 7, 5000, FALSE),
       TsEntry(<<"f">>, 6, 100, 7, 6000, FALSE) >>

(* A header, then segments 0, 5, 10 and 15 seconds after the first.        *)
OffsetStream ==
    << TsEntry(<<"i">>, 0, 0, 9, 0, TRUE),
       TsEntry(<<"a">>, 1, 500, 7, 20000, FALSE),
       TsEntry(<<"b">>, 2, 500, 7, 25000, FALSE),
       TsEntry(<<"c">>, 3, 500, 7, 30000, FALSE),
       TsEntry(<<"d">>, 4, 500, 7, 35000, FALSE) >>

StartStreams == { <<>>, GapStream, OffsetStream }

(* The entries added afterwards: timestamps between whole seconds, one     *)
(* before the epoch, two headers, and a timestamp chrono has no date for.  *)
ManifestPool ==
    { TsEntry(<<"s">>, 7, 150, 7, 1500, FALSE),
      TsEntry(<<"t">>, 8, 249, 8, 6000, FALSE),
      TsEntry(<<"u">>, 8, 100, 7, 0 - 1500, FALSE),
      TsEntry(<<"g">>, 0, 0, 9, 0, TRUE),
      TsEntry(<<"h">>, 9, 0, 9, 7000, TRUE),
      TsEntry(<<"x">>, 10, 100, 7, FarTs, FALSE) }

(* A range, or none: bounds in hundredths of a second, one of them with x  *)
(* above y and one beyond every entry but the far one.                     *)
Range(x, y) == [x |-> x, y |-> y]

Ranges ==
    { <<>>, <<Range(500, 1000)>>, <<Range(1000, 2000)>>, <<Range(300, 200)>>,
      <<Range(10000, 20000)>> }

InitManifest ==
    /\ pc = "manifest"
    /\ \E es \in StartStreams :
          /\ observed = [i \in 1..Len(es) |-> Status(es[i], "ok")]
          /\ header = AddAll(NewIndex, es).header
          /\ entries = AddAll(NewIndex, es).entries
          /\ total_duration = AddAll(NewIndex, es).total_duration
          /\ total_size = AddAll(NewIndex, es).total_size
          /\ last_sequence = AddAll(NewIndex, es).last_sequence
    /\ continue_sequence = 0
    /\ file = <<>>
    /\ nread = 0
    /\ diag = 0
    /\ cur = <<>>
    /\ wlock = FALSE
    /\ wrRes = "none"
    /\ flRes = "none"
    /\ loads = <<>>
    /\ seen = <<>>
    /\ nAdds = 0
    /\ nFails = 0
    /\ codecLine = <<>>
    /\ codecOut = <<>>

(* add_entry, which succeeds.                                              *)
ManifestAdd ==
    /\ pc = "manifest"
    /\ nAdds < MaxExtra
    /\ \E e \in ManifestPool :
          /\ SetIndex(AddEntryIndex(CurrentIndex, e))
          /\ observed' = Append(observed, Status(e, "ok"))
    /\ nAdds' = nAdds + 1
    /\ seen' = <<>>
    /\ UNCHANGED <<file, pc, nread, diag, cur, wlock, wrRes, flRes, loads, nFails,
                   codecVars>>

(* manifest(vod, force_time, range): what the caller gets.                 *)
ManifestCall ==
    /\ pc = "manifest"
    /\ \E vod \in BOOLEAN, force_time \in BOOLEAN, range \in Ranges :
          seen' = <<[vod |-> vod, force_time |-> force_time, range |-> range,
                     out |-> Manifest(CurrentIndex, vod, force_time, range)]>>
    /\ UNCHANGED <<file, pc, storeVars, nread, diag, cur, wlock, wrRes, flRes,
                   observed, loads, countVars, codecVars>>

NextManifest == ManifestAdd \/ ManifestCall

SpecManifest == InitManifest /\ [][NextManifest]_vars

----------------------------------------------------------------------------
(* What the properties of the manifest speak of.                           *)

(* A playlist was asked for; it was returned; its lines.                   *)
Called == pc = "manifest" /\ seen # <<>>

Returned == Called /\ seen[1].out.ok

Playlist == seen[1].out.val

Tagged(lines, tag) == SelectSeq(lines, LAMBDA l : l.tag = tag)

TextsOf(lines) == [i \in 1..Len(lines) |-> lines[i].text]

UrlsOf(es) == [i \in 1..Len(es) |-> es[i].url]

(* The lines of the segments, one group for each url line.                 *)
SegmentTags == {"#EXT-X-DISCONTINUITY", "#EXT-X-PROGRAM-DATE-TIME:", "#EXTINF:", ""}

RECURSIVE Groups(_, _)
Groups(lines, acc) ==
    IF lines = <<>> THEN (IF acc = <<>> THEN <<>> ELSE <<acc>>)
    ELSE IF Head(lines).tag = ""
         THEN <<Append(acc, Head(lines))>> \o Groups(Tail(lines), <<>>)
         ELSE Groups(Tail(lines), Append(acc, Head(lines)))

SegmentGroups(lines) == Groups(SelectSeq(lines, LAMBDA l : l.tag \in SegmentTags), <<>>)

Marked(group) == Tagged(group, "#EXT-X-DISCONTINUITY") # <<>>

(* C11, as stated: once two or more headers were appended, every playlist  *)
(* has exactly one EXT-X-MAP line, with the url of the latest.             *)
C11_OneMapAlways ==
    (Returned /\ Len(Headers(EntriesOf(observed))) >= 2)
        => TextsOf(Tagged(Playlist, "#EXT-X-MAP:URI=")) = <<LastHeader(EntriesOf(observed))[1].url>>

(* C11, amended: once two or more headers were appended the index holds    *)
(* the latest one and no other, and a playlist has exactly one EXT-X-MAP   *)
(* line, with the url of the latest header, when the index holds a         *)
(* segment; it has none when the index holds no segment.                   *)
C11_LatestHeaderMapped ==
    (pc = "manifest" /\ Len(Headers(EntriesOf(observed))) >= 2)
        => /\ header = LastHeader(EntriesOf(observed))
           /\ Headers(entries) = <<>>
           /\ Returned =>
                TextsOf(Tagged(Playlist, "#EXT-X-MAP:URI=")) =
                    IF entries = <<>> THEN <<>>
                    ELSE <<LastHeader(EntriesOf(observed))[1].url>>

C11_Witness ==
    /\ Returned
    /\ Len(Headers(EntriesOf(observed))) >= 2
    /\ Headers(EntriesOf(observed))[1].url # LastHeader(EntriesOf(observed))[1].url
    /\ entries # <<>>
    /\ TextsOf(Tagged(Playlist, "#EXT-X-MAP:URI=")) = <<LastHeader(EntriesOf(observed))[1].url>>

(* The breaks a list of segments has by the rule: an entry after the first *)
(* breaks when its sequence is below the one before it or above it by more *)
(* than one.                                                               *)
BreakAt(es, i) ==
    i > 1 /\ (es[i].sequence < es[i - 1].sequence
              \/ es[i].sequence - es[i - 1].sequence > 1)

MarksOf(lines) ==
    [i \in 1..Len(SegmentGroups(lines)) |-> Marked(SegmentGroups(lines)[i])]

(* C12: in a playlist of the whole index there is one segment for each     *)
(* entry, in arrival order, and it is marked discontinuous exactly when    *)
(* its sequence is below the previous entry's or above it by more than     *)
(* one; the first is never marked.  The stream 1, 2, 3, 5, 4, 6 gives the  *)
(* marks no, no, no, yes, yes, yes.                                        *)
C12_DiscontinuityRule ==
    (Returned /\ seen[1].range = <<>>)
        => /\ Len(MarksOf(Playlist)) = Len(entries)
           /\ \A i \in 1..Len(entries) : MarksOf(Playlist)[i] = BreakAt(entries, i)
           /\ (entries # <<>>) => ~MarksOf(Playlist)[1]
           /\ (Len(entries) >= 6 /\ SubSeq(entries, 1, 6) = GapStream)
                 => SubSeq(MarksOf(Playlist), 1, 6) = <<FALSE, FALSE, FALSE, TRUE, TRUE, TRUE>>

C12_Witness ==
    /\ Returned
    /\ seen[1].range = <<>>
    /\ entries = GapStream
    /\ MarksOf(Playlist) = <<FALSE, FALSE, FALSE, TRUE, TRUE, TRUE>>

(* The entries a range takes in, by an offset given for each entry.        *)
Within(range, off) == range[1].x <= 100 * off /\ 100 * off <= range[1].y

(* The offset as whole seconds of the difference in milliseconds.          *)
OffsetOfDifference(e, first) == (e.ts - first.ts) \div 1000

(* The offset as the difference of the whole seconds of each timestamp,    *)
(* each rounded toward zero.                                               *)
OffsetOfSeconds(e, first) ==
    (IF e.ts >= 0 THEN e.ts \div 1000 ELSE 0 - ((0 - e.ts) \div 1000))
    - (IF first.ts >= 0 THEN first.ts \div 1000 ELSE 0 - ((0 - first.ts) \div 1000))

(* C13, as stated: with a range, the segments of the playlist are the      *)
(* entries whose offset, the floor of the millisecond difference to the    *)
(* first entry over 1000, lies within the bounds.                          *)
C13_FloorOfDifference ==
    (Returned /\ seen[1].range # <<>>)
        => TextsOf(Tagged(Playlist, "")) =
              UrlsOf(SelectSeq(entries, LAMBDA e :
                        Within(seen[1].range, OffsetOfDifference(e, entries[1]))))

(* C13, amended: with a range, the segments of the playlist are the        *)
(* entries whose offset lies within the bounds, both included, where the offset is the   *)
(* whole seconds of the entry's timestamp less the whole seconds of the    *)
(* first entry's timestamp, each rounded toward zero; this is the floor of *)
(* the millisecond difference over 1000 when the first timestamp is a      *)
(* multiple of 1000 and the entry's is not negative.  Entries 0, 5, 10 and *)
(* 15 seconds after the first with the range 5 to 10 give the second and   *)
(* the third.                                                              *)
C13_SecondsDifference ==
    (Returned /\ seen[1].range # <<>>)
        => /\ TextsOf(Tagged(Playlist, "")) =
                 UrlsOf(SelectSeq(entries, LAMBDA e :
                           Within(seen[1].range, OffsetOfSeconds(e, entries[1]))))
           /\ \A i \in 1..Len(entries) :
                 (entries[1].ts % 1000 = 0 /\ entries[i].ts >= 0)
                    => OffsetOfSeconds(entries[i], entries[1])
                          = OffsetOfDifference(entries[i], entries[1])
           /\ (Len(entries) >= 4 /\ SubSeq(entries, 1, 4) = Segments(OffsetStream)
               /\ seen[1].range = <<Range(500, 1000)>>)
                 => SubSeq(TextsOf(Tagged(Playlist, "")), 1, 2) = << <<"b">>, <<"c">> >>

C13_Witness ==
    /\ Returned
    /\ seen[1].range = <<Range(500, 1000)>>
    /\ Len(entries) = 2
    /\ entries[1].ts = 1500
    /\ entries[2].ts = 6000
    /\ TextsOf(Tagged(Playlist, "")) = << <<"t">> >>

(* C14: a playlist has the line EXT-X-ENDLIST, once and as its last line,  *)
(* exactly when vod is set, whatever the index, force_time and the range.  *)
C14_EndListIffVod ==
    Returned
        => /\ (Tagged(Playlist, "#EXT-X-ENDLIST") # <<>>) <=> seen[1].vod
           /\ seen[1].vod
                 => /\ Len(Tagged(Playlist, "#EXT-X-ENDLIST")) = 1
                    /\ Playlist[Len(Playlist)].tag = "#EXT-X-ENDLIST"

C14_Witness ==
    /\ Returned
    /\ ~seen[1].vod
    /\ seen[1].force_time
    /\ seen[1].range # <<>>
    /\ Len(entries) >= 2
    /\ Tagged(Playlist, "") # <<>>
    /\ Tagged(Playlist, "#EXT-X-ENDLIST") = <<>>

(* C15: when the index holds no segment, a header or not, the playlist is  *)
(* the lines EXTM3U, EXT-X-VERSION and EXT-X-PLAYLIST-TYPE, and            *)
(* EXT-X-ENDLIST when vod is set, and nothing else.                        *)
C15_EmptyIndexPlaylist ==
    (Called /\ entries = <<>>)
        => /\ seen[1].out.ok
           /\ [i \in 1..Len(Playlist) |-> Playlist[i].tag] =
                 <<"#EXTM3U", "#EXT-X-VERSION:", "#EXT-X-PLAYLIST-TYPE:">>
                 \o (IF seen[1].vod THEN <<"#EXT-X-ENDLIST">> ELSE <<>>)
           /\ Playlist[2].num = 6
           /\ Playlist[3].text = IF seen[1].vod THEN <<"VOD">> ELSE <<"EVENT">>

C15_Witness ==
    /\ Returned
    /\ entries = <<>>
    /\ header # <<>>
    /\ seen[1].vod
    /\ Len(Playlist) = 4

(* The places in the index of the entries a call takes in.                 *)
Taken(es, range) ==
    SelectSeq([i \in 1..Len(es) |-> i],
              LAMBDA i : range = <<>> \/ Within(range, OffsetOfSeconds(es[i], es[1])))

(* C16, as stated: every call returns a playlist, and one whose range      *)
(* takes in no entry has no segment line.                                  *)
C16_ManifestAlwaysReturns ==
    Called
        => /\ seen[1].out.ok
           /\ (Taken(entries, seen[1].range) = <<>>) => SegmentGroups(Playlist) = <<>>

(* C18: with a range, each segment of the playlist is marked discontinuous *)
(* exactly when its entry breaks from the entry stored before it, taken in *)
(* or not, and so exactly when the playlist of the whole index marks it.   *)
C18_MarksOverFullSequence ==
    (Returned /\ seen[1].range # <<>>)
        => LET taken == Taken(entries, seen[1].range)
               whole == Manifest(CurrentIndex, seen[1].vod, seen[1].force_time, <<>>)
           IN  /\ Len(MarksOf(Playlist)) = Len(taken)
               /\ \A k \in 1..Len(taken) :
                     /\ MarksOf(Playlist)[k] = BreakAt(entries, taken[k])
                     /\ whole.ok => MarksOf(Playlist)[k] = MarksOf(whole.val)[taken[k]]

C18_Witness ==
    /\ Returned
    /\ seen[1].range = <<Range(500, 1000)>>
    /\ entries = GapStream
    /\ Taken(entries, seen[1].range) = <<6>>
    /\ MarksOf(Playlist) = <<TRUE>>

(* The lines of the segment of entry i.                                    *)
ExpectedGroup(es, i, force_time) ==
    (IF BreakAt(es, i) THEN <<MLine("#EXT-X-DISCONTINUITY", 0, <<>>)>> ELSE <<>>)
    \o (IF BreakAt(es, i) \/ force_time
        THEN <<MLine("#EXT-X-PROGRAM-DATE-TIME:",
                     IF es[i].ts >= 0 THEN es[i].ts \div 1000
                     ELSE 0 - ((0 - es[i].ts) \div 1000), <<>>)>>
        ELSE <<>>)
    \o <<MLine("#EXTINF:", es[i].length, <<>>), MLine("", 0, es[i].url)>>

(* C19: the segments of a playlist are those of the entries taken in, in   *)
(* stored order and one each: the discontinuity line exactly when the      *)
(* entry breaks, then the date line exactly when it breaks or force_time   *)
(* is set, then the duration line and the url line.  No header is among    *)
(* them.                                                                   *)
C19_SegmentLines ==
    Returned
        => LET taken == Taken(entries, seen[1].range)
           IN  /\ SegmentGroups(Playlist) =
                     [k \in 1..Len(taken) |->
                         ExpectedGroup(entries, taken[k], seen[1].force_time)]
               /\ \A k \in 1..Len(taken) : ~entries[taken[k]].is_header
               /\ \A h \in 1..Len(Headers(EntriesOf(observed))) :
                     \A l \in 1..Len(Tagged(Playlist, "")) :
                        Tagged(Playlist, "")[l].text # Headers(EntriesOf(observed))[h].url

C19_Witness ==
    /\ Returned
    /\ ~seen[1].force_time
    /\ Headers(EntriesOf(observed)) # <<>>
    /\ Len(SegmentGroups(Playlist)) >= 3
    /\ \E k \in 1..Len(SegmentGroups(Playlist)) : Len(SegmentGroups(Playlist)[k]) = 4
    /\ \E k \in 1..Len(SegmentGroups(Playlist)) : Len(SegmentGroups(Playlist)[k]) = 2

----------------------------------------------------------------------------
(* The restart alone: the process starts on a log that earlier runs wrote, *)
(* loads it, serves readers and ends, any number of times.  The log is up  *)
(* to MaxWrites writes of add_entry one after the other, each the whole    *)
(* line of an entry or, from a write that failed or that a crash cut, its  *)
(* first bytes.                                                            *)

MaxWrites == 3

WrittenPieces ==
    {Display(e) : e \in EntryPool}
    \cup {SubSeq(Display(e), 1, k) : e \in EntryPool, k \in 1..MaxCut}

RECURSIVE LogsOf(_)
LogsOf(n) ==
    IF n = 0 THEN {<<>>}
    ELSE LogsOf(n - 1) \cup {l \o w : l \in LogsOf(n - 1), w \in WrittenPieces}

InitRestart ==
    /\ pc = "down"
    /\ file \in LogsOf(MaxWrites)
    /\ header = <<>>
    /\ entries = <<>>
    /\ total_duration = 0
    /\ total_size = 0
    /\ last_sequence = 0
    /\ continue_sequence = 0
    /\ nread = 0
    /\ diag = 0
    /\ cur = <<>>
    /\ wlock = FALSE
    /\ wrRes = "none"
    /\ flRes = "none"
    /\ observed = <<>>
    /\ loads = <<>>
    /\ seen = <<>>
    /\ nAdds = 0
    /\ nFails = 0
    /\ codecLine = <<>>
    /\ codecOut = <<>>

NextRestart == New \/ LoadLine \/ LoadDone \/ Read \/ Crash

SpecRestart == InitRestart /\ [][NextRestart]_vars

(* The lines of a log that are text.                                       *)
TextLines(bytes) == SelectSeq(Lines(bytes), ValidUtf8)

(* C17, as stated: a reader is served only after load has ended, and what  *)
(* it reads is the index of the whole log: every line of the log that      *)
(* decodes is loaded.                                                      *)
C17_WholeLogBeforeReaders ==
    (pc = "ready" /\ seen # <<>>)
        => /\ loads[Len(loads)].complete
           /\ seen[1].entries = Segments(DecodedOf(TextLines(file)))
           /\ seen[1].header = LastHeader(DecodedOf(TextLines(file)))

(* An entry whose own line, read back alone, gives the entry.              *)
ReadsBackAlone(e) == DecodedOf(ReadableLines(Lines(Display(e)))) = <<e>>

(* The log ends in a line that was never ended.                            *)
TornTail(bytes) == bytes # <<>> /\ bytes[Len(bytes)] # NL

(* C20, as stated: when the store was opened on a log that a crash left    *)
(* with an unended last line, every entry whose write and flush succeed    *)
(* afterwards is among the entries a replay of the log returns.            *)
C20_AppendAfterTornTailSurvives ==
    (pc = "ready" /\ loads # <<>> /\ loads[Len(loads)].complete
     /\ TornTail(loads[Len(loads)].before))
        => \A i \in 1..Len(observed) :
              (observed[i].io = "ok" /\ ReadsBackAlone(observed[i].e))
                 => \E j \in 1..Len(DecodedOf(ReadableLines(Lines(file)))) :
                       DecodedOf(ReadableLines(Lines(file)))[j] = observed[i].e

====
